---- MODULE Spec2Model ----
(***************************************************************************)
(* Model of app.py, the monthly revenue dashboard: parse_dataframe (the    *)
(* validator/normaliser), compute_cum, the KPI extraction and the render   *)
(* pass of the script, one action per block of the script.                 *)
(*                                                                         *)
(* Text is a sequence of one-character strings.  Column names are the      *)
(* romanised forms of the Korean labels of the source:                     *)
(*   wol = month/period, maechulaek = revenue, jeonnyeondongwol = prior    *)
(*   year revenue, jeunggamryul = change percentage, nujeokmaechul =       *)
(*   cumulative revenue, wolbeonho = month number.                         *)
(* A cell is a record [k, s, v]: k = "str" (text s), "int" (int64 v),      *)
(* "float" (float64, v counting tenths) or "nan" (float64 NaN).  Numbers   *)
(* with more than one fractional digit are outside the bounded inputs.     *)
(***************************************************************************)
EXTENDS Integers, Sequences, FiniteSets, TLC

VARIABLES pc, uploaded, use_sample, df_in, df, err, shown, kpi, markers, exc

vars == <<pc, uploaded, use_sample, df_in, df, err, shown, kpi, markers, exc>>

----------------------------------------------------------------------------
(* Characters and text *)

DigitChars == <<"0", "1", "2", "3", "4", "5", "6", "7", "8", "9">>

IsDigit(c) == \E i \in 1..Len(DigitChars) : DigitChars[i] = c

DigitVal(c) == (CHOOSE i \in 1..Len(DigitChars) : DigitChars[i] = c) - 1

\* Code point of a character: the order Python compares str values by.
Ord(c) ==
  CASE c = " " -> 32
    [] c = "," -> 44
    [] c = "-" -> 45
    [] c = "." -> 46
    [] c = "/" -> 47
    [] IsDigit(c) -> 48 + DigitVal(c)
    [] c = "a" -> 97
    [] c = "n" -> 110
    [] OTHER -> 120

RECURSIVE StrLess(_, _)
\* s < t for Python str: lexicographic by code point.
StrLess(s, t) ==
  IF t = <<>> THEN FALSE
  ELSE IF s = <<>> THEN TRUE
  ELSE IF Ord(Head(s)) # Ord(Head(t)) THEN Ord(Head(s)) < Ord(Head(t))
  ELSE StrLess(Tail(s), Tail(t))

\* str.replace(ch, "", regex=False)
RemoveChar(s, ch) == SelectSeq(s, LAMBDA c : c # ch)

RECURSIVE LStrip(_)
LStrip(s) == IF s # <<>> /\ Head(s) = " " THEN LStrip(Tail(s)) ELSE s

RECURSIVE RStrip(_)
RStrip(s) ==
  IF s # <<>> /\ s[Len(s)] = " " THEN RStrip(SubSeq(s, 1, Len(s) - 1)) ELSE s

\* str.strip()
Strip(s) == RStrip(LStrip(s))

\* str.match(r"^\d{4}-\d{2}$")
MatchPeriod(s) ==
  /\ Len(s) = 7
  /\ \A i \in {1, 2, 3, 4, 6, 7} : IsDigit(s[i])
  /\ s[5] = "-"

RECURSIVE DigitsOf(_)
\* Decimal digits of a natural number.
DigitsOf(n) ==
  IF n < 10 THEN <<DigitChars[n + 1]>>
  ELSE Append(DigitsOf(n \div 10), DigitChars[(n % 10) + 1])

\* str(n) of an int
FmtInt(n) == IF n < 0 THEN <<"-">> \o DigitsOf(0 - n) ELSE DigitsOf(n)

RECURSIVE DigitsVal(_)
\* Value of a non-empty digit string.
DigitsVal(s) ==
  IF Len(s) = 1 THEN DigitVal(s[1])
  ELSE 10 * DigitsVal(SubSeq(s, 1, Len(s) - 1)) + DigitVal(s[Len(s)])

AllDigits(s) == s # <<>> /\ \A i \in 1..Len(s) : IsDigit(s[i])

----------------------------------------------------------------------------
(* Cells *)

StrCell(s) == [k |-> "str", s |-> s, v |-> 0]
IntCell(n) == [k |-> "int", s |-> <<>>, v |-> n]
\* A float64 holding t tenths.
FloatCell(t) == [k |-> "float", s |-> <<>>, v |-> t]
NaN == [k |-> "nan", s |-> <<>>, v |-> 0]

IsNaN(c) == c.k = "nan"

\* float(n) of an int cell; a float cell is kept.
ToFloat(c) == IF c.k = "int" THEN FloatCell(10 * c.v) ELSE c

Abs(n) == IF n < 0 THEN 0 - n ELSE n

\* str(x) of a float holding t tenths
FmtFloat(t) ==
  (IF t < 0 THEN <<"-">> ELSE <<>>)
    \o DigitsOf(Abs(t) \div 10) \o <<".", DigitChars[(Abs(t) % 10) + 1]>>

\* Series.astype(str) on one element
AsStr(c) ==
  CASE c.k = "str" -> c.s
    [] c.k = "int" -> FmtInt(c.v)
    [] c.k = "float" -> FmtFloat(c.v)
    [] OTHER -> <<"n", "a", "n">>

\* Position of the first "." of s, or 0.
DotPos(s) ==
  IF \E i \in 1..Len(s) : s[i] = "."
  THEN CHOOSE i \in 1..Len(s) : s[i] = "." /\ \A j \in 1..(i - 1) : s[j] # "."
  ELSE 0

\* pd.to_numeric(errors="coerce") on one text element: an optional sign, digits
\* and an optional fraction (one significant digit); anything else is NaN.
ParseNum(s) ==
  LET neg == s # <<>> /\ Head(s) = "-"
      body == IF neg THEN Tail(s) ELSE s
      dot == DotPos(body)
      whole == IF dot = 0 THEN body ELSE SubSeq(body, 1, dot - 1)
      frac == IF dot = 0 THEN <<>> ELSE SubSeq(body, dot + 1, Len(body))
      tenth == IF frac = <<>> THEN 0 ELSE DigitVal(frac[1])
      mag == DigitsVal(whole)
  IN  IF ~AllDigits(whole) THEN NaN
      ELSE IF dot = 0 THEN IntCell(IF neg THEN 0 - mag ELSE mag)
      ELSE IF /\ \A i \in 1..Len(frac) : IsDigit(frac[i])
              /\ \A i \in 2..Len(frac) : frac[i] = "0"
           THEN FloatCell(IF neg THEN 0 - (10 * mag + tenth) ELSE 10 * mag + tenth)
      ELSE NaN

----------------------------------------------------------------------------
(* Tables (DataFrame): the column set, the row index and the rows in order; *)
(* a row maps each column to a cell.                                        *)

NoDF == [cols |-> {}, index |-> <<>>, rows |-> <<>>]

NoErr == [kind |-> "none", cols |-> <<>>, bad |-> <<>>]

\* RangeIndex(n): the index 0..n-1
RangeIndex(n) == [i \in 1..n |-> i - 1]

\* df[c] as a list of cells
Column(t, c) == [i \in 1..Len(t.rows) |-> t.rows[i][c]]

\* df[c] = values
SetColumn(t, c, values) ==
  [t EXCEPT !.cols = t.cols \cup {c},
            !.rows = [i \in 1..Len(t.rows) |->
                        [d \in t.cols \cup {c} |->
                           IF d = c THEN values[i] ELSE t.rows[i][d]]]]

----------------------------------------------------------------------------
(* compute_cum *)

\* s + v on Python numbers: NaN absorbs, a float operand makes a float.
Add(a, b) ==
  IF IsNaN(a) \/ IsNaN(b) THEN NaN
  ELSE IF a.k = "float" \/ b.k = "float" THEN FloatCell(ToFloat(a).v + ToFloat(b).v)
  ELSE IntCell(a.v + b.v)

RECURSIVE CumFrom(_, _)
\* The loop of compute_cum with the accumulator s.
CumFrom(values, s) ==
  IF values = <<>> THEN <<>>
  ELSE LET s2 == Add(s, Head(values))
       IN  <<s2>> \o CumFrom(Tail(values), s2)

RECURSIVE CumSkipNaN(_, _)
\* Mutant: the running sum skips NaN, as a cumsum would.
CumSkipNaN(values, s) ==
  IF values = <<>> THEN <<>>
  ELSE IF IsNaN(Head(values)) THEN <<NaN>> \o CumSkipNaN(Tail(values), s)
  ELSE <<Add(s, Head(values))>> \o CumSkipNaN(Tail(values), Add(s, Head(values)))

compute_cum_skipna(values) == CumSkipNaN(values, IntCell(0))

compute_cum(values) == CumFrom(values, IntCell(0))

----------------------------------------------------------------------------
(* parse_dataframe *)

need_cols == <<"wol", "maechulaek", "jeonnyeondongwol", "jeunggamryul">>

NumericCols == <<"maechulaek", "jeonnyeondongwol", "jeunggamryul">>

\* Mutant: only the first missing column is reported.
MissingCols_First(t) ==
  LET all == SelectSeq(need_cols, LAMBDA c : c \notin t.cols)
  IN  IF all = <<>> THEN <<>> ELSE <<all[1]>>

\* missing = [c for c in need_cols if c not in df.columns]
MissingCols(t) == SelectSeq(need_cols, LAMBDA c : c \notin t.cols)

RECURSIVE Join(_)
\* ', '.join(items), as the sequence of its pieces
Join(items) ==
  IF Len(items) <= 1 THEN items
  ELSE <<Head(items), ", ">> \o Join(Tail(items))

MissingError(t) == [kind |-> "missing", cols |-> Join(MissingCols(t)), bad |-> <<>>]

\* One column through astype(str), the two replace calls and to_numeric: the
\* column is int64 when every element parses as an integer, else float64.
CoerceColumn(t, c) ==
  LET parsed == [i \in 1..Len(t.rows) |->
                   ParseNum(RemoveChar(RemoveChar(AsStr(t.rows[i][c]), ","), " "))]
      allInt == \A i \in 1..Len(t.rows) : parsed[i].k = "int"
  IN  [i \in 1..Len(t.rows) |->
         IF allInt THEN parsed[i] ELSE ToFloat(parsed[i])]

RECURSIVE CoerceColumns(_, _)
\* for c in [...]: df[c] = pd.to_numeric(...)
CoerceColumns(t, cs) ==
  IF cs = <<>> THEN t
  ELSE CoerceColumns(SetColumn(t, Head(cs), CoerceColumn(t, Head(cs))), Tail(cs))

\* df["wol"] = df["wol"].astype(str).str.strip()
StripPeriods(t) ==
  SetColumn(t, "wol",
            [i \in 1..Len(t.rows) |-> StrCell(Strip(AsStr(t.rows[i]["wol"])))])

RowOrders(n) == {p \in [1..n -> 1..n] : \A i, j \in 1..n : p[i] = p[j] => i = j}

\* df.sort_values("wol") with the default kind, quicksort, which is not stable:
\* every arrangement in non-decreasing period order is a possible result.  The
\* index labels move with their rows.
SortValues(t) ==
  {[t EXCEPT !.rows = [i \in 1..Len(t.rows) |-> t.rows[p[i]]],
             !.index = [i \in 1..Len(t.rows) |-> t.index[p[i]]]] :
     p \in {q \in RowOrders(Len(t.rows)) :
              \A i \in 1..(Len(t.rows) - 1) :
                 ~StrLess(t.rows[q[i + 1]]["wol"].s, t.rows[q[i]]["wol"].s)}}

\* Series.head(n)
HeadN(s, n) == SubSeq(s, 1, IF Len(s) < n THEN Len(s) ELSE n)

\* Mutant: the offending values are sampled after the sort.
BadPeriods_AfterSort(t) ==
  LET u == CHOOSE x \in SortValues(t) : TRUE
  IN  HeadN(SelectSeq([i \in 1..Len(u.rows) |-> u.rows[i]["wol"].s],
                      LAMBDA s : ~MatchPeriod(s)), 3)

\* df.loc[~match, "wol"].head(3).tolist()
BadPeriods(t) ==
  HeadN(SelectSeq([i \in 1..Len(t.rows) |-> t.rows[i]["wol"].s],
                  LAMBDA s : ~MatchPeriod(s)), 3)

\* df["wol"].str.match(...).all()
AllPeriodsMatch(t) == \A i \in 1..Len(t.rows) : MatchPeriod(t.rows[i]["wol"].s)

PeriodError(t) == [kind |-> "period", cols |-> <<>>, bad |-> BadPeriods(t)]

\* Mutant: the index of the sorted table is kept.
ResetIndex_Kept(t) == t

\* .reset_index(drop=True)
ResetIndex(t) == [t EXCEPT !.index = RangeIndex(Len(t.rows))]

\* df["nujeokmaechul"] = compute_cum(df["maechulaek"].tolist())
WithCumulative(t) == SetColumn(t, "nujeokmaechul", compute_cum(Column(t, "maechulaek")))

\* df["wolbeonho"] = df["wol"].str[-2:].astype(int)
WithMonthNumber(t) ==
  SetColumn(t, "wolbeonho",
            [i \in 1..Len(t.rows) |->
               LET s == t.rows[i]["wol"].s
               IN  IntCell(DigitsVal(SubSeq(s, Len(s) - 1, Len(s))))])

\* The table as it stands when the period format is checked.
Coerced(t) == StripPeriods(CoerceColumns(t, NumericCols))

\* parse_dataframe(df_raw): the possible outcomes, a returned table or a
\* raised ValueError.
parse_dataframe(t) ==
  IF MissingCols(t) # <<>>
  THEN {[ok |-> FALSE, df |-> NoDF, err |-> MissingError(t)]}
  ELSE IF ~AllPeriodsMatch(Coerced(t))
  THEN {[ok |-> FALSE, df |-> NoDF, err |-> PeriodError(Coerced(t))]}
  ELSE {[ok |-> TRUE, df |-> WithMonthNumber(WithCumulative(ResetIndex(s))),
         err |-> NoErr] : s \in SortValues(Coerced(t))}

----------------------------------------------------------------------------
(* CSV files: a table whose cells are all text *)

NAText == {<<>>, <<"n", "a", "n">>}

\* One column of pd.read_csv: numeric when every cell is a number or missing,
\* else the text is kept; a missing cell is NaN either way.
ReadCsvColumn(t, c) ==
  LET txt == [i \in 1..Len(t.rows) |-> t.rows[i][c].s]
      num == [i \in 1..Len(t.rows) |-> ParseNum(Strip(txt[i]))]
      numeric == \A i \in 1..Len(t.rows) : txt[i] \in NAText \/ ~IsNaN(num[i])
      allInt == \A i \in 1..Len(t.rows) : num[i].k = "int"
  IN  [i \in 1..Len(t.rows) |->
         IF txt[i] \in NAText THEN NaN
         ELSE IF ~numeric THEN StrCell(txt[i])
         ELSE IF allInt THEN num[i] ELSE ToFloat(num[i])]

\* pd.read_csv(uploaded)
read_csv(t) ==
  [cols |-> t.cols, index |-> RangeIndex(Len(t.rows)),
   rows |-> [i \in 1..Len(t.rows) |-> [c \in t.cols |-> ReadCsvColumn(t, c)[i]]]]

\* df.to_csv(index=False): every cell as text, NaN as the empty field
to_csv(t) ==
  [cols |-> t.cols, index |-> RangeIndex(Len(t.rows)),
   rows |-> [i \in 1..Len(t.rows) |->
               [c \in t.cols |->
                  StrCell(IF IsNaN(t.rows[i][c]) THEN <<>> ELSE AsStr(t.rows[i][c]))]]]

NoFile == [present |-> FALSE, table |-> NoDF]

CsvFile(t) == [present |-> TRUE, table |-> t]

----------------------------------------------------------------------------
(* SAMPLE *)

SampleRow(m, rev, prev, pct) ==
  [c \in {"wol", "maechulaek", "jeonnyeondongwol", "jeunggamryul"} |->
     CASE c = "wol" -> StrCell(<<"2", "0", "2", "4", "-", "0", m>>)
       [] c = "maechulaek" -> IntCell(rev)
       [] c = "jeonnyeondongwol" -> IntCell(prev)
       [] OTHER -> FloatCell(pct)]

SAMPLE ==
  [cols |-> {"wol", "maechulaek", "jeonnyeondongwol", "jeunggamryul"},
   index |-> RangeIndex(5),
   rows |-> <<SampleRow("1", 12000000, 10500000, 143),
              SampleRow("2", 13500000, 11200000, 205),
              SampleRow("3", 11000000, 12800000, -141),
              SampleRow("4", 18000000, 15200000, 184),
              SampleRow("5", 21000000, 18500000, 135)>>]

----------------------------------------------------------------------------
(* Formatters *)

RECURSIVE Grouped(_)
\* Digits with a "," before every group of three, as the "," format does.
Grouped(ds) ==
  IF Len(ds) <= 3 THEN ds
  ELSE Grouped(SubSeq(ds, 1, Len(ds) - 3)) \o <<",">> \o SubSeq(ds, Len(ds) - 2, Len(ds))

\* int(x) of a number cell: a float is truncated toward zero.
IntOf(c) ==
  IF c.k = "int" THEN c.v
  ELSE IF c.v < 0 THEN 0 - (Abs(c.v) \div 10) ELSE c.v \div 10

\* fmt_money(x): int(nan) raises inside the try, and str(x) is returned.
fmt_money(c) ==
  IF IsNaN(c) THEN <<"n", "a", "n">>
  ELSE (IF IntOf(c) < 0 THEN <<"-">> ELSE <<>>) \o Grouped(DigitsOf(Abs(IntOf(c))))

\* fmt_pct(x)
fmt_pct(c) ==
  IF IsNaN(c) THEN <<"n", "a", "n", "%">>
  ELSE (IF c.v > 0 THEN <<"+">> ELSE <<>>) \o FmtFloat(ToFloat(c).v) \o <<"%">>

----------------------------------------------------------------------------
(* KPI extraction *)

\* Positions of the column's elements that are not NaN.
Valid(values) == {i \in 1..Len(values) : ~IsNaN(values[i])}

\* Mutant: the label of the last maximum.
idxmax_last(t) ==
  LET values == Column(t, "maechulaek")
  IN  IF Valid(values) = {} THEN -1
      ELSE t.index[CHOOSE i \in Valid(values) :
                     /\ \A j \in Valid(values) : values[j].v <= values[i].v
                     /\ \A j \in Valid(values) : j > i => values[j].v < values[i].v]

\* Series.idxmax(): the label of the first maximum, NaN skipped; -1 stands for
\* the failure on a column with no number (int() of NaN, or ValueError).
idxmax(t) ==
  LET values == Column(t, "maechulaek")
  IN  IF Valid(values) = {} THEN -1
      ELSE t.index[CHOOSE i \in Valid(values) :
                     /\ \A j \in Valid(values) : values[j].v <= values[i].v
                     /\ \A j \in Valid(values) : j < i => values[j].v < values[i].v]

\* Series.idxmin(): the label of the first minimum, NaN skipped.
idxmin(t) ==
  LET values == Column(t, "maechulaek")
  IN  IF Valid(values) = {} THEN -1
      ELSE t.index[CHOOSE i \in Valid(values) :
                     /\ \A j \in Valid(values) : values[j].v >= values[i].v
                     /\ \A j \in Valid(values) : j < i => values[j].v > values[i].v]

RECURSIVE SumSkipNa(_)
\* Series.sum(): NaN is skipped (skipna=True); the sum of nothing is 0.
SumSkipNa(values) ==
  IF values = <<>> THEN 0
  ELSE (IF IsNaN(Head(values)) THEN 0 ELSE Head(values).v) + SumSkipNa(Tail(values))

\* int(df["maechulaek"].sum())
Total(t) ==
  LET values == Column(t, "maechulaek")
      isFloat == \E i \in 1..Len(values) : values[i].k # "int"
  IN  IF isFloat THEN IntOf(FloatCell(SumSkipNa(values)))
      ELSE SumSkipNa(values)

\* df.loc[label, c]
Loc(t, label, c) ==
  t.rows[CHOOSE i \in 1..Len(t.rows) : t.index[i] = label][c]

NoKpi ==
  [date_range |-> <<>>, last |-> <<>>, max_idx |-> -1, min_idx |-> -1,
   total |-> IntCell(0), tiles |-> <<>>]

NoMarkers == [sizes |-> <<>>, colors |-> <<>>, bars |-> <<>>]

----------------------------------------------------------------------------
(* The render pass: one action per block of the script.  shown lists what   *)
(* the pass has put on the main page so far.                                *)

Init ==
  /\ pc = "sidebar"
  /\ uploaded = NoFile
  /\ use_sample = TRUE
  /\ df_in = NoDF
  /\ df = NoDF
  /\ err = NoErr
  /\ shown = <<>>
  /\ kpi = NoKpi
  /\ markers = NoMarkers
  /\ exc = "none"

\* The sidebar widgets return the file and the toggle the user has set.  With
\* the sample switched on the file is ignored; it then has at most one row.
Sidebar(files) ==
  /\ pc = "sidebar"
  /\ \E f \in {NoFile} \cup {CsvFile(t) : t \in files}, u \in BOOLEAN :
       /\ (u /\ f.present) => Len(f.table.rows) <= 1
       /\ uploaded' = f
       /\ use_sample' = u
  /\ pc' = "load"
  /\ UNCHANGED <<df_in, df, err, shown, kpi, markers, exc>>

\* Mutant: the error is shown but st.stop() is left out.
LoadData_NoStop ==
  /\ pc = "load"
  /\ LET input == IF uploaded.present /\ ~use_sample
                  THEN read_csv(uploaded.table) ELSE SAMPLE
     IN  /\ df_in' = input
         /\ \E r \in parse_dataframe(input) :
              IF r.ok
              THEN /\ df' = r.df
                   /\ pc' = "header"
                   /\ UNCHANGED <<err, shown>>
              ELSE /\ err' = r.err
                   /\ shown' = Append(shown, "error")
                   /\ pc' = "header"
                   /\ UNCHANGED df
  /\ UNCHANGED <<uploaded, use_sample, kpi, markers, exc>>

\* The data loading try/except: any exception is shown with st.error, and
\* st.stop() ends the pass.
LoadData ==
  /\ pc = "load"
  /\ LET input == IF uploaded.present /\ ~use_sample
                  THEN read_csv(uploaded.table) ELSE SAMPLE
     IN  /\ df_in' = input
         /\ \E r \in parse_dataframe(input) :
              IF r.ok
              THEN /\ df' = r.df
                   /\ pc' = "header"
                   /\ UNCHANGED <<err, shown>>
              ELSE /\ err' = r.err
                   /\ shown' = Append(shown, "error")
                   /\ pc' = "stopped"
                   /\ UNCHANGED df
  /\ UNCHANGED <<uploaded, use_sample, kpi, markers, exc>>

\* The header: st.title, then date_range from iloc[0] and iloc[-1], which
\* raise IndexError on a table without rows; nothing catches it.
Header ==
  /\ pc = "header"
  /\ IF Len(df.rows) = 0
     THEN /\ shown' = Append(shown, "title")
          /\ exc' = "IndexError"
          /\ pc' = "crashed"
          /\ UNCHANGED kpi
     ELSE /\ shown' = shown \o <<"title", "caption">>
          /\ kpi' = [kpi EXCEPT !.date_range =
                       <<df.rows[1]["wol"].s, df.rows[Len(df.rows)]["wol"].s>>]
          /\ pc' = "downloads"
          /\ UNCHANGED exc
  /\ UNCHANGED <<uploaded, use_sample, df_in, df, err, markers>>

\* The two download buttons, of to_csv(df_in) and to_csv(df).
Downloads ==
  /\ pc = "downloads"
  /\ shown' = shown \o <<"download_original", "download_clean">>
  /\ pc' = "kpi"
  /\ UNCHANGED <<uploaded, use_sample, df_in, df, err, kpi, markers, exc>>

\* KPI extraction and the four metric tiles.  int(idxmax()) fails on a revenue
\* column without a number; nothing catches it.
Kpi ==
  /\ pc = "kpi"
  /\ IF idxmax(df) = -1
     THEN /\ exc' = "ValueError"
          /\ pc' = "crashed"
          /\ UNCHANGED <<kpi, shown>>
     ELSE /\ kpi' = [kpi EXCEPT
                       !.last = df.rows[Len(df.rows)],
                       !.max_idx = idxmax(df),
                       !.min_idx = idxmin(df),
                       !.total = IntCell(Total(df)),
                       !.tiles = <<fmt_money(df.rows[Len(df.rows)]["maechulaek"]),
                                   fmt_pct(df.rows[Len(df.rows)]["jeunggamryul"]),
                                   fmt_money(IntCell(Total(df))),
                                   Loc(df, idxmax(df), "wol").s,
                                   Loc(df, idxmin(df), "wol").s>>]
          /\ shown' = shown \o <<"metric1", "metric2", "metric3", "metric4", "divider">>
          /\ pc' = "charts"
          /\ UNCHANGED exc
  /\ UNCHANGED <<uploaded, use_sample, df_in, df, err, markers>>

\* marker_sizes / marker_colors of chart 3: max_idx and min_idx are used as
\* list positions, the minimum written last.
MarkerList(n, base, hi, lo) ==
  [i \in 1..n |-> IF i = kpi.min_idx + 1 THEN lo
                  ELSE IF i = kpi.max_idx + 1 THEN hi ELSE base]

\* colors of chart 2: red below zero, else green (NaN compares false).
BarColors(t) ==
  [i \in 1..Len(t.rows) |->
     IF ~IsNaN(t.rows[i]["jeunggamryul"]) /\ t.rows[i]["jeunggamryul"].v < 0
     THEN "#ff6b6b" ELSE "#7bd389"]

\* Charts 1 to 5.
Charts ==
  /\ pc = "charts"
  /\ markers' = [sizes |-> MarkerList(Len(df.rows), 6, 12, 12),
                 colors |-> MarkerList(Len(df.rows), "#1f77b4", "#7bd389", "#ff6b6b"),
                 bars |-> BarColors(df)]
  /\ shown' = shown \o <<"chart1", "chart2", "chart3", "chart4", "chart5">>
  /\ pc' = "table"
  /\ UNCHANGED <<uploaded, use_sample, df_in, df, err, kpi, exc>>

\* The preview table and the footer caption.
Table ==
  /\ pc = "table"
  /\ shown' = shown \o <<"dataframe", "footer">>
  /\ pc' = "done"
  /\ UNCHANGED <<uploaded, use_sample, df_in, df, err, kpi, markers, exc>>

\* The next interaction starts a new pass from the top of the script: the
\* page and the tables of the pass before are discarded.
Rerun ==
  /\ pc \in {"done", "stopped", "crashed"}
  /\ pc' = "sidebar"
  /\ uploaded' = NoFile
  /\ use_sample' = TRUE
  /\ df_in' = NoDF
  /\ df' = NoDF
  /\ err' = NoErr
  /\ shown' = <<>>
  /\ kpi' = NoKpi
  /\ markers' = NoMarkers
  /\ exc' = "none"

Pass == LoadData \/ Header \/ Downloads \/ Kpi \/ Charts \/ Table \/ Rerun

----------------------------------------------------------------------------
(* Bounded inputs *)

MaxRows == 2
MaxPeriodRows == 5
MaxRevenueRows == 3

AllCols == {"wol", "maechulaek", "jeonnyeondongwol", "jeunggamryul"}

\* The rows over the columns cs, the cell of column c drawn from cells[c].
RowsOver(cs, cells) ==
  {r : r \in {x \in [cs -> UNION {cells[c] : c \in cs}] :
                 \A c \in cs : x[c] \in cells[c]}}

\* The CSV files with a column set of colSets, at most n rows and the cells
\* of column c drawn from cells[c].
Files(colSets, n, cells) ==
  UNION {LET rows == RowsOver(cs, cells)
         IN  UNION {{[cols |-> cs, index |-> RangeIndex(k), rows |-> rs] :
                       rs \in [1..k -> rows]} : k \in 0..n} : cs \in colSets}

Texts(ss) == {StrCell(x) : x \in ss}

UploadCells ==
  [c \in AllCols |->
     CASE c = "wol" -> Texts({<<"2", "0", "2", "4", "-", "0", "2">>,
                              <<" ", "2", "0", "2", "4", "-", "0", "1">>,
                              <<"2", "0", "2", "4", "-", "1", "3">>,
                              <<"2", "0", "2", "4", "/", "0", "1">>})
       [] c = "maechulaek" -> Texts({<<"2">>, <<"1", ",", " ", "0">>, <<"x">>})
       [] c = "jeonnyeondongwol" -> Texts({<<"7">>})
       [] OTHER -> Texts({<<"-", "3", ".", "5">>, <<>>})]

PeriodCells ==
  [c \in AllCols |->
     CASE c = "wol" -> Texts({<<"2", "0", "2", "4", "-", "0", "2">>,
                              <<"2", "0", "2", "4", "/", "0", "1">>,
                              <<"2", "4", "-", "1", " ">>,
                              <<"2", "0", "2", "4", "-", "1", "x">>})
       [] c = "maechulaek" -> Texts({<<"2">>})
       [] c = "jeonnyeondongwol" -> Texts({<<"7">>})
       [] OTHER -> Texts({<<"-", "3", ".", "5">>})]

RevenueCells ==
  [c \in AllCols |->
     CASE c = "wol" -> Texts({<<"2", "0", "2", "4", "-", "0", "1">>,
                              <<"2", "0", "2", "4", "-", "0", "2">>,
                              <<"2", "0", "2", "4", "-", "0", "3">>})
       [] c = "maechulaek" -> Texts({<<"2">>, <<"1", ",", "0">>, <<"x">>})
       [] c = "jeonnyeondongwol" -> Texts({<<"7">>})
       [] OTHER -> Texts({<<"-", "3", ".", "5">>})]

Next == Sidebar(Files(SUBSET AllCols, MaxRows, UploadCells)) \/ Pass

Spec == Init /\ [][Next]_vars

NextPeriods == Sidebar(Files({AllCols}, MaxPeriodRows, PeriodCells)) \/ Pass

SpecPeriods == Init /\ [][NextPeriods]_vars

NextRevenue == Sidebar(Files({AllCols}, MaxRevenueRows, RevenueCells)) \/ Pass

SpecRevenue == Init /\ [][NextRevenue]_vars

----------------------------------------------------------------------------
(* Properties *)

\* parse_dataframe has returned a table in this pass.
Parsed == pc \in {"header", "downloads", "kpi", "charts", "table", "done", "crashed"}

\* The data loading block has run in this pass.
Loaded == pc \notin {"sidebar", "load"}

\* The period of row i of the input, as text, trimmed.
TrimmedPeriod(i) == Strip(AsStr(df_in.rows[i]["wol"]))

\* The number a cell of the input is coerced to.
CleanNum(c) == ParseNum(RemoveChar(RemoveChar(AsStr(c), ","), " "))

\* The rows of the input whose period is malformed.
Offending == {i \in 1..Len(df_in.rows) : ~MatchPeriod(TrimmedPeriod(i))}

\* C1: when the input lacks a required column, the pass ends in a validation
\* error whose message is the missing columns, and only those, joined by ", "
\* in the order wol, maechulaek, jeonnyeondongwol, jeunggamryul, whatever the
\* rows hold.
C1_MissingColumnsListed ==
  LET order == [c \in AllCols |->
                  CASE c = "wol" -> 1
                    [] c = "maechulaek" -> 2
                    [] c = "jeonnyeondongwol" -> 3
                    [] OTHER -> 4]
      odd == {i \in 1..Len(err.cols) : i % 2 = 1}
  IN  (Loaded /\ ~(AllCols \subseteq df_in.cols)) =>
        /\ pc = "stopped"
        /\ err.kind = "missing"
        /\ df = NoDF
        /\ Len(err.cols) % 2 = 1
        /\ \A i \in 1..Len(err.cols) : i % 2 = 0 => err.cols[i] = ", "
        /\ {err.cols[i] : i \in odd} = AllCols \ df_in.cols
        /\ \A i, j \in odd : i < j => order[err.cols[i]] < order[err.cols[j]]

\* C1 witness: two columns are missing and a row holds a malformed period and
\* an unparseable revenue.
C1_Witness ==
  /\ pc = "stopped"
  /\ err.kind = "missing"
  /\ df_in.cols = {"wol", "maechulaek"}
  /\ \E i \in 1..Len(df_in.rows) :
       /\ ~MatchPeriod(TrimmedPeriod(i))
       /\ IsNaN(CleanNum(df_in.rows[i]["maechulaek"]))

\* C2: with all four columns present, a malformed period fails the whole
\* input, the message holding the first min(3, k) of the k offending trimmed
\* values in input row order; without one no period error is raised.
C2_PeriodErrorSamplesFirstThree ==
  (Loaded /\ AllCols \subseteq df_in.cols) =>
    IF Offending = {}
    THEN err.kind = "none" /\ pc # "stopped"
    ELSE /\ pc = "stopped"
         /\ err.kind = "period"
         /\ df = NoDF
         /\ Len(err.bad) = (IF Cardinality(Offending) < 3
                            THEN Cardinality(Offending) ELSE 3)
         /\ \A j \in 1..Len(err.bad) :
              \E i \in Offending :
                /\ Cardinality({h \in Offending : h < i}) = j - 1
                /\ err.bad[j] = TrimmedPeriod(i)

\* C2 witness: four rows are malformed, a well-formed row comes before the
\* last of them, and the first three offending values differ.
C2_Witness ==
  /\ pc = "stopped"
  /\ err.kind = "period"
  /\ Cardinality(Offending) >= 4
  /\ \E i \in 1..Len(df_in.rows) : i \notin Offending /\ i < Len(df_in.rows)
  /\ Len(err.bad) = 3
  /\ Cardinality({err.bad[j] : j \in 1..3}) = 3

\* C3: once the loading block has recorded a failure, the page holds the one
\* error message and nothing else, no table or KPI exists, and the pass has
\* stopped.
C3_ErrorStopsThePass ==
  /\ err.kind # "none" =>
       /\ pc = "stopped"
       /\ shown = <<"error">>
       /\ df = NoDF
       /\ kpi = NoKpi
       /\ markers = NoMarkers
  /\ pc = "stopped" => err.kind # "none"

\* C3 witness: a period validation failure has been displayed.
C3_Witness == pc = "stopped" /\ err.kind = "period" /\ shown = <<"error">>

\* The revenue column of the returned table.
Revenue == Column(df, "maechulaek")

\* C4: a table without rows ends the pass in a dedicated empty-dataset error
\* before any first-row, last-row or max/min lookup is evaluated on it.
C4_EmptyTableGuarded ==
  (Parsed /\ Len(df.rows) = 0 /\ pc # "header") =>
    /\ exc = "EmptyDatasetError"
    /\ shown = <<"error">>

RECURSIVE SumTenths(_, _)
\* The sum of the first i values, in tenths.
SumTenths(values, i) ==
  IF i = 0 THEN 0 ELSE SumTenths(values, i - 1) + ToFloat(values[i]).v

\* C5: in the returned table the cumulative column at row i is the sum of the
\* revenue of rows 1..i of the sorted table, and is NaN exactly from the first
\* NaN revenue on.
C5_CumulativeIsRunningSum ==
  Parsed =>
    /\ \A i \in 1..(Len(df.rows) - 1) :
         ~StrLess(df.rows[i + 1]["wol"].s, df.rows[i]["wol"].s)
    /\ \A i \in 1..Len(df.rows) :
         IF \E j \in 1..i : IsNaN(Revenue[j])
         THEN IsNaN(df.rows[i]["nujeokmaechul"])
         ELSE /\ ~IsNaN(df.rows[i]["nujeokmaechul"])
              /\ ToFloat(df.rows[i]["nujeokmaechul"]).v = SumTenths(Revenue, i)

\* C5 witness: three rows given out of period order, the revenue of the second
\* sorted row NaN, the other two numbers.
C5_Witness ==
  /\ pc = "done"
  /\ Len(df.rows) = 3
  /\ ~IsNaN(Revenue[1]) /\ IsNaN(Revenue[2]) /\ ~IsNaN(Revenue[3])
  /\ ~IsNaN(df.rows[1]["nujeokmaechul"]) /\ IsNaN(df.rows[3]["nujeokmaechul"])
  /\ StrLess(TrimmedPeriod(2), TrimmedPeriod(1))

\* The input periods are pairwise distinct.
DistinctPeriods ==
  \A i, j \in 1..Len(df_in.rows) : TrimmedPeriod(i) = TrimmedPeriod(j) => i = j

\* C6: for an input with pairwise distinct periods the returned periods are
\* strictly increasing, the rows are the input rows (coerced), each once, and
\* the index is 0..n-1.
C6_SortedPermutation ==
  (Parsed /\ DistinctPeriods) =>
    /\ \A i \in 1..(Len(df.rows) - 1) :
         StrLess(df.rows[i]["wol"].s, df.rows[i + 1]["wol"].s)
    /\ Len(df.rows) = Len(df_in.rows)
    /\ \A i \in 1..Len(df.rows) : df.index[i] = i - 1
    /\ Len(df.index) = Len(df.rows)
    /\ \A i \in 1..Len(df_in.rows) :
         \E j \in 1..Len(df.rows) :
           /\ df.rows[j]["wol"].s = TrimmedPeriod(i)
           /\ \A c \in {"maechulaek", "jeonnyeondongwol", "jeunggamryul"} :
                IF IsNaN(CleanNum(df_in.rows[i][c])) THEN IsNaN(df.rows[j][c])
                ELSE ToFloat(df.rows[j][c]) = ToFloat(CleanNum(df_in.rows[i][c]))

\* C6 witness: two rows given in descending period order, one with a revenue
\* that failed coercion.
C6_Witness ==
  /\ pc = "done"
  /\ Len(df_in.rows) = 2
  /\ StrLess(TrimmedPeriod(2), TrimmedPeriod(1))
  /\ IsNaN(CleanNum(df_in.rows[1]["maechulaek"]))
  /\ ~IsNaN(CleanNum(df_in.rows[2]["maechulaek"]))

\* C7: with a NaN revenue in a returned table that has rows, the KPI block
\* does not raise and total is NaN, as the last cumulative value is.
C7_TotalIsNaN ==
  (Parsed /\ pc \notin {"header", "downloads", "kpi"}
     /\ \E i \in 1..Len(df.rows) : IsNaN(Revenue[i])) =>
    /\ exc = "none"
    /\ IsNaN(kpi.total)

\* C8: the month number of every returned row is in 1..12 and is the value of
\* the last two characters of its period.
C8_MonthNumberInRange ==
  Parsed =>
    \A i \in 1..Len(df.rows) :
      LET s == df.rows[i]["wol"].s
      IN  /\ df.rows[i]["wolbeonho"].k = "int"
          /\ df.rows[i]["wolbeonho"].v = 10 * DigitVal(s[6]) + DigitVal(s[7])
          /\ df.rows[i]["wolbeonho"].v \in 1..12

\* C9: with numeric revenues, max_idx and min_idx are the lowest positions
\* (from 0) of the largest and of the smallest revenue of the sorted table.
C9_FirstExtremeWins ==
  (pc \in {"charts", "table", "done"} /\ \A i \in 1..Len(df.rows) : ~IsNaN(Revenue[i])) =>
    /\ kpi.max_idx \in 0..(Len(df.rows) - 1)
    /\ kpi.min_idx \in 0..(Len(df.rows) - 1)
    /\ \A j \in 1..Len(df.rows) :
         /\ Revenue[j].v <= Revenue[kpi.max_idx + 1].v
         /\ Revenue[j].v >= Revenue[kpi.min_idx + 1].v
         /\ j < kpi.max_idx + 1 => Revenue[j].v < Revenue[kpi.max_idx + 1].v
         /\ j < kpi.min_idx + 1 => Revenue[j].v > Revenue[kpi.min_idx + 1].v

\* C9 witness: three numeric rows, the largest revenue in the second and the
\* third, the first index reported.
C9_Witness ==
  /\ pc = "done"
  /\ Len(df.rows) = 3
  /\ \A i \in 1..3 : ~IsNaN(Revenue[i])
  /\ Revenue[2].v = Revenue[3].v
  /\ Revenue[1].v < Revenue[2].v
  /\ kpi.max_idx = 1
  /\ kpi.min_idx = 0

\* C10: the returned table, exported and read back or passed on as it is,
\* parses to itself.
C10_ReparseIsIdentity ==
  Parsed =>
    /\ parse_dataframe(df) = {[ok |-> TRUE, df |-> df, err |-> NoErr]}
    /\ parse_dataframe(read_csv(to_csv(df))) = {[ok |-> TRUE, df |-> df, err |-> NoErr]}

\* The reading of C10 that holds: with pairwise distinct periods.
C10_ReparseDistinct ==
  (Parsed /\ DistinctPeriods) =>
    /\ parse_dataframe(df) = {[ok |-> TRUE, df |-> df, err |-> NoErr]}
    /\ parse_dataframe(read_csv(to_csv(df))) = {[ok |-> TRUE, df |-> df, err |-> NoErr]}

====
